---- MODULE Spec2Model ----
(***************************************************************************)
(* BookShelfUI: the NGXS book store (store/book.state.ts, printed in       *)
(* src/bookshelf-app/src/app/store/book.actions.ts from line 148), the     *)
(* API client (services/book.service.ts, src/unnamed/part_005) and the     *)
(* list controller BookListComponent (printed in                           *)
(* components/book-detail/book-detail.component.ts from line 117).         *)
(*                                                                         *)
(* Nullable values (T | null, T | undefined) are modelled as sequences of  *)
(* length at most one: null is <<>>, a present value v is <<v>>.           *)
(***************************************************************************)
EXTENDS Integers, Sequences, FiniteSets, TLC

\* ------------------------------------------------------------------ bounds
\* createBookSuccess appends without limit: books is capped at MaxBooks.
MaxBooks == 2
\* Requests awaiting their response at the same time.
MaxInflight == 2
\* Largest page number the server reports / the user can ask for.
MaxPage == 2
\* Deferred setTimeout callbacks pending at the same time.
MaxTimers == 2

\* ------------------------------------------------------------------ values
null == <<>>
Some(v) == <<v>>

BookIds == {1, 2}
Titles == {"a", "b"}
\* models/book.model.ts Book, reduced to its identity and one content field:
\* the records the server can hold, book 1 under either title and book 2.
Book == {b \in [id : BookIds, title : Titles] : b.id = 1 \/ b.title = "a"}

\* Lists a server can return for one page: records with pairwise distinct
\* ids (here in the order of their ids).
PageItems ==
    {<<>>} \cup {<<b>> : b \in Book}
           \cup {p \in Book \X Book : p[1].id < p[2].id}

\* Lookup tables as served by GET /Lookups/statuses and /Lookups/Genres.
LoadedStatuses == <<[statusId |-> 0, statusName |-> "Read"], [statusId |-> 1, statusName |-> "Want"]>>
LoadedGenres == <<[genreId |-> 0, genreName |-> "Fiction"], [genreId |-> 1, genreName |-> "Poetry"]>>

Columns == {"title", "author"}
Directions == {"asc", "desc"}

DefaultFilter ==
    [searchTerm |-> "", statusId |-> null, genreId |-> null,
     sortBy |-> "title", sortOrder |-> "asc"]

DefaultPageSize == 10

DefaultPagination ==
    [currentPage |-> 1, pageSize |-> DefaultPageSize, totalCount |-> 0, totalPages |-> 0]

\* @State defaults.
Defaults ==
    [books |-> <<>>, selectedBook |-> null, loading |-> FALSE, error |-> null,
     filter |-> DefaultFilter, statuses |-> <<>>, genres |-> <<>>,
     pagination |-> DefaultPagination]

\* ------------------------------------------------------------------ state
VARIABLES
    state,              \* the store's BookStateModel, replaced wholesale
    inflight,           \* requests awaiting their response, in issue order
    lastEvent,          \* history: the action most recently applied to the store
    listMounted,        \* BookListComponent is alive (pagination$ subscribed)
    searchTerm, selectedGenreId, selectedStatusId, sortConfig,
    currentPage, pageSize, totalBooks, totalPages,   \* the component's signals
    timers,             \* pending setTimeout(.., ANIM_MS) callbacks, in firing order
    issued,             \* the PaginationParams dispatched by the step just taken, or null
    lastSetPageSize,    \* history: the page size the user last chose
    resetPending,       \* history: a filter/sort/size gesture since the last request
    routed,             \* the detail or form view that is mounted, with its route id
    lookups,            \* how many lookup requests of each kind await their response
    snackBar            \* the message of the snack bar opened by the step just taken, or null

storeVars == <<state, inflight, lastEvent, issued, snackBar>>
signals == <<searchTerm, selectedGenreId, selectedStatusId, sortConfig,
             currentPage, pageSize, totalBooks, totalPages>>
viewVars == <<routed, lookups>>
listVars == <<listMounted, signals, timers, lastSetPageSize, resetPending, viewVars>>
vars == <<storeVars, listVars>>

\* ------------------------------------------------------------------ API client
apiUrl == "/api/Books"

\* What HttpClient hands to catchError: a client-side ErrorEvent, an
\* unreachable server (status 0) or a non-2xx response.
TransportErrors ==
    { [isErrorEvent |-> TRUE,  status |-> 0,   message |-> "Failed to fetch"],
      [isErrorEvent |-> FALSE, status |-> 0,   message |-> "Http failure response: 0 Unknown Error"],
      [isErrorEvent |-> FALSE, status |-> 500, message |-> "Http failure response: 500"] }

\* Mutant: status 0 is not told apart from the other statuses.
handleError_NoConnectionCase(error) ==
    IF error.isErrorEvent
    THEN "Network Error: " \o error.message
    ELSE "Server Error (" \o ToString(error.status) \o "): " \o error.message

\* BookService.handleError: the message of the Error it rethrows.
handleError(error) ==
    IF error.isErrorEvent
    THEN "Network Error: " \o error.message
    ELSE IF error.status = 0
         THEN "Connection Error: Unable to reach API at " \o apiUrl
                  \o ". Make sure the API server is running on port 7181 and CORS is configured."
         ELSE "Server Error (" \o ToString(error.status) \o "): " \o error.message

\* Mutant: issuing a request drops the selection.
patchLoading_ClearsSelection(st) ==
    [st EXCEPT !.loading = TRUE, !.error = null, !.selectedBook = null]

\* Mutant: issuing a request leaves the error of an earlier failure.
patchLoading_KeepsError(st) == [st EXCEPT !.loading = TRUE]

\* ------------------------------------------------------------------ reducers
\* ctx.patchState({ loading: true, error: null })
patchLoading(st) == [st EXCEPT !.loading = TRUE, !.error = null]

\* Mutant: totalPages computed on the client from totalCount and pageSize.
fetchPaginatedBooksSuccess_Recomputed(st, payload) ==
    [st EXCEPT !.books = payload.items,
               !.pagination = [currentPage |-> payload.page,
                               pageSize |-> payload.pageSize,
                               totalCount |-> payload.totalCount,
                               totalPages |-> (payload.totalCount + payload.pageSize - 1)
                                                 \div payload.pageSize],
               !.loading = FALSE,
               !.error = null]

fetchPaginatedBooksSuccess(st, payload) ==
    [st EXCEPT !.books = payload.items,
               !.pagination = [currentPage |-> payload.page,
                               pageSize |-> payload.pageSize,
                               totalCount |-> payload.totalCount,
                               totalPages |-> payload.totalPages],
               !.loading = FALSE,
               !.error = null]

\* fetchPaginatedBooksError, fetchBookByIdError, createBookError,
\* updateBookError and deleteBookError all apply the same setState.
setError(st, payload) == [st EXCEPT !.loading = FALSE, !.error = Some(payload)]

\* Mutant: a failed page fetch drops the page on display.
fetchPaginatedBooksError_ClearsBooks(st, payload) ==
    [st EXCEPT !.books = <<>>, !.loading = FALSE, !.error = Some(payload)]

fetchPaginatedBooksError(st, payload) == setError(st, payload)

fetchBookByIdSuccess(st, payload) ==
    [st EXCEPT !.selectedBook = Some(payload), !.loading = FALSE, !.error = null]

\* Mutant: a failed detail fetch drops the selection.
fetchBookByIdError_ClearsSelection(st, payload) ==
    [st EXCEPT !.selectedBook = null, !.loading = FALSE, !.error = Some(payload)]

fetchBookByIdError(st, payload) == setError(st, payload)

\* Mutant: the new record is stored under an id assigned on the client.
createBookSuccess_LocalId(st, payload) ==
    [st EXCEPT !.books = Append(st.books, [payload EXCEPT !.id = Len(st.books) + 1]),
               !.loading = FALSE, !.error = null]

\* Mutant: the new record is put first.
createBookSuccess_Prepends(st, payload) ==
    [st EXCEPT !.books = <<payload>> \o st.books, !.loading = FALSE, !.error = null]

createBookSuccess(st, payload) ==
    [st EXCEPT !.books = Append(st.books, payload), !.loading = FALSE, !.error = null]

createBookError(st, payload) == setError(st, payload)

\* state.books.map(book => book.id === payload.id ? payload : book)
MapReplace(books, payload) ==
    [i \in 1..Len(books) |-> IF books[i].id = payload.id THEN payload ELSE books[i]]

\* Mutant: the selection keeps the record it held.
updateBookSuccess_KeepsSelection(st, payload) ==
    [st EXCEPT !.books = MapReplace(st.books, payload), !.loading = FALSE, !.error = null]

updateBookSuccess(st, payload) ==
    [st EXCEPT !.books = MapReplace(st.books, payload),
               !.selectedBook = Some(payload),
               !.loading = FALSE,
               !.error = null]

updateBookError(st, payload) == setError(st, payload)

\* state.books.filter(book => book.id !== id)
FilterOut(books, id) == SelectSeq(books, LAMBDA b : b.id # id)

\* Mutant: only the first record with the id is removed.
deleteBookSuccess_FirstOnly(st, payload) ==
    LET hit == {k \in 1..Len(st.books) : st.books[k].id = payload}
        first == CHOOSE k \in hit : \A j \in hit : k <= j
    IN  [st EXCEPT !.books = IF hit = {} THEN st.books
                             ELSE SubSeq(st.books, 1, first - 1)
                                      \o SubSeq(st.books, first + 1, Len(st.books)),
                   !.selectedBook = IF st.selectedBook # null /\ st.selectedBook[1].id = payload
                                    THEN null ELSE st.selectedBook,
                   !.loading = FALSE,
                   !.error = null]

\* Mutant: a successful delete takes one off the total count.
deleteBookSuccess_AdjustsCount(st, payload) ==
    [st EXCEPT !.books = FilterOut(st.books, payload),
               !.selectedBook = IF st.selectedBook # null /\ st.selectedBook[1].id = payload
                                THEN null ELSE st.selectedBook,
               !.pagination = [st.pagination EXCEPT
                                  !.totalCount = IF @ > 0 THEN @ - 1 ELSE 0],
               !.loading = FALSE,
               !.error = null]

deleteBookSuccess(st, payload) ==
    [st EXCEPT !.books = FilterOut(st.books, payload),
               !.selectedBook = IF st.selectedBook # null /\ st.selectedBook[1].id = payload
                                THEN null ELSE st.selectedBook,
               !.loading = FALSE,
               !.error = null]

\* Mutant: a failed delete clears the selection as a success would.
deleteBookError_ClearsSelection(st, payload) ==
    [st EXCEPT !.selectedBook = null, !.loading = FALSE, !.error = Some(payload)]

deleteBookError(st, payload) == setError(st, payload)

\* Mutant: clearing the selection also clears the error.
clearSelectedBook_ClearsError(st) == [st EXCEPT !.selectedBook = null, !.error = null]

clearSelectedBook(st) == [st EXCEPT !.selectedBook = null]

\* ------------------------------------------------------------------ requests
\* A request handed to BookService (a numeric payload n is held as
\* [id |-> n]); superseded (history) is set once the
\* success of a page fetch issued after it has been applied.
Request(kind, payload) == [kind |-> kind, payload |-> payload, superseded |-> FALSE]

\* An action without payload.
NoPayload == [none |-> TRUE]

\* What lastEvent remembers of an applied action: its type and payload (a
\* record: a number n is held as [id |-> n], a message as [message |-> m]),
\* whether it answers a superseded request, and how many books the store
\* held before.
Event(type, payload, superseded) ==
    [type |-> type, payload |-> payload, superseded |-> superseded,
     n |-> Len(state.books)]

\* Responses arrive in any order, so only the issue order of the page
\* fetches is kept: inflight lists them first, oldest first, and the other
\* requests grouped by kind.
Rank(r) ==
    CASE r.kind = "FetchPaginatedBooks" -> 1
      [] r.kind = "FetchBookById" -> 2
      [] r.kind = "CreateBook" -> 3
      [] r.kind = "UpdateBook" -> 4
      [] r.kind = "DeleteBook" -> 5
      [] OTHER -> 6

Insert(s, r) ==
    LET k == Cardinality({j \in 1..Len(s) : Rank(s[j]) <= Rank(r)})
    IN  SubSeq(s, 1, k) \o <<r>> \o SubSeq(s, k + 1, Len(s))

RemoveAt(s, i) == SubSeq(s, 1, i - 1) \o SubSeq(s, i + 1, Len(s))

Pending(kind) == {i \in 1..Len(inflight) : inflight[i].kind = kind}

\* The page fetches issued before request i are now superseded.
Supersede(s, i) ==
    [j \in 1..Len(s) |->
        IF j < i /\ s[j].kind = "FetchPaginatedBooks"
        THEN [s[j] EXCEPT !.superseded = TRUE] ELSE s[j]]

\* store.dispatch of a request action other than the page fetch:
\* patchState, then the HTTP call.
Dispatch(kind, payload) ==
    /\ Len(inflight) < MaxInflight
    /\ state' = patchLoading(state)
    /\ inflight' = Insert(inflight, Request(kind, payload))
    /\ lastEvent' = Event(kind, payload, FALSE)
    /\ issued' = null
    /\ snackBar' = null

\* The response of request i arrives and its result action is reduced.
Result(i, type, payload, st) ==
    /\ state' = st
    /\ inflight' = RemoveAt(inflight, i)
    /\ lastEvent' = Event(type, payload, inflight[i].superseded)
    /\ issued' = null

\* GET /Books/paged: the server echoes the page and page size it was asked
\* for and reports the items and the totals it chooses.
PagedResponses(params, items, reports) ==
    {[items |-> it, page |-> params.Page, pageSize |-> params.PageSize,
      totalCount |-> r.totalCount, totalPages |-> r.totalPages] :
        it \in items, r \in reports}

\* ------------------------------------------------------------------ store actions
\* store.dispatch(new FetchPaginatedBooks(params)): patchState, then
\* getBooks(params). The server's answer depends on the request through
\* Page and PageSize only, which is what inflight keeps of it; issued holds
\* the params in full.
dispatchFetchPaginatedBooks(params) ==
    /\ Len(inflight) < MaxInflight
    /\ state' = patchLoading(state)
    /\ inflight' = Insert(inflight, Request("FetchPaginatedBooks",
                                             [Page |-> params.Page, PageSize |-> params.PageSize]))
    /\ lastEvent' = Event("FetchPaginatedBooks",
                          [Page |-> params.Page, PageSize |-> params.PageSize], FALSE)
    /\ issued' = Some(params)
    /\ snackBar' = null

FetchPaginatedBooks(params) ==
    /\ dispatchFetchPaginatedBooks(params)
    /\ UNCHANGED listVars

\* pagination$ emits the new pagination object to a mounted list component.
PaginationEmits(pagination) ==
    IF listMounted
    THEN /\ currentPage' = pagination.currentPage
         /\ pageSize' = pagination.pageSize
         /\ totalBooks' = pagination.totalCount
         /\ totalPages' = pagination.totalPages
    ELSE UNCHANGED <<currentPage, pageSize, totalBooks, totalPages>>

FetchPaginatedBooksSuccess(i, response) ==
    /\ i \in Pending("FetchPaginatedBooks")
    /\ state' = fetchPaginatedBooksSuccess(state, response)
    /\ inflight' = RemoveAt(Supersede(inflight, i), i)
    /\ lastEvent' = Event("FetchPaginatedBooksSuccess", response, inflight[i].superseded)
    /\ issued' = null
    /\ snackBar' = null
    /\ PaginationEmits(state'.pagination)
    /\ UNCHANGED <<listMounted, searchTerm, selectedGenreId, selectedStatusId,
                   sortConfig, timers, lastSetPageSize, resetPending, viewVars>>

FetchPaginatedBooksError(i, error) ==
    /\ i \in Pending("FetchPaginatedBooks")
    /\ Result(i, "FetchPaginatedBooksError", [message |-> handleError(error)],
              fetchPaginatedBooksError(state, handleError(error)))
    /\ snackBar' = Some("Failed to load books: " \o handleError(error))
    /\ UNCHANGED listVars

FetchBookById(id) ==
    /\ Dispatch("FetchBookById", [id |-> id])
    /\ UNCHANGED listVars

FetchBookByIdSuccess(i, book) ==
    /\ i \in Pending("FetchBookById")
    /\ book.id = inflight[i].payload.id
    /\ Result(i, "FetchBookByIdSuccess", book, fetchBookByIdSuccess(state, book))
    /\ snackBar' = null
    /\ UNCHANGED listVars

FetchBookByIdError(i, error) ==
    /\ i \in Pending("FetchBookById")
    /\ Result(i, "FetchBookByIdError", [message |-> handleError(error)],
              fetchBookByIdError(state, handleError(error)))
    /\ snackBar' = Some("Failed to load book: " \o handleError(error))
    /\ UNCHANGED listVars

CreateBook(payload) ==
    /\ Dispatch("CreateBook", payload)
    /\ UNCHANGED listVars

\* The server answers with the stored book, under the id it assigned.
CreateBookSuccess(i, book) ==
    /\ i \in Pending("CreateBook")
    /\ Len(state.books) < MaxBooks
    /\ Result(i, "CreateBookSuccess", book, createBookSuccess(state, book))
    /\ snackBar' = Some("Book created")
    /\ UNCHANGED listVars

CreateBookError(i, error) ==
    /\ i \in Pending("CreateBook")
    /\ Result(i, "CreateBookError", [message |-> handleError(error)],
              createBookError(state, handleError(error)))
    /\ snackBar' = Some("Failed to create book: " \o handleError(error))
    /\ UNCHANGED listVars

UpdateBook(payload) ==
    /\ Dispatch("UpdateBook", payload)
    /\ UNCHANGED listVars

\* The server answers with the record it now holds under the payload's id.
UpdateBookSuccess(i, book) ==
    /\ i \in Pending("UpdateBook")
    /\ book.id = inflight[i].payload.id
    /\ Result(i, "UpdateBookSuccess", book, updateBookSuccess(state, book))
    /\ snackBar' = Some("Book updated")
    /\ UNCHANGED listVars

UpdateBookError(i, error) ==
    /\ i \in Pending("UpdateBook")
    /\ Result(i, "UpdateBookError", [message |-> handleError(error)],
              updateBookError(state, handleError(error)))
    /\ snackBar' = Some("Failed to update book: " \o handleError(error))
    /\ UNCHANGED listVars

DeleteBook(id) ==
    /\ Dispatch("DeleteBook", [id |-> id])
    /\ UNCHANGED listVars

\* DELETE answers with an empty body: the success carries the request's id.
DeleteBookSuccess(i) ==
    /\ i \in Pending("DeleteBook")
    /\ Result(i, "DeleteBookSuccess", inflight[i].payload,
              deleteBookSuccess(state, inflight[i].payload.id))
    /\ snackBar' = Some("Book deleted")
    /\ UNCHANGED listVars

DeleteBookError(i, error) ==
    /\ i \in Pending("DeleteBook")
    /\ Result(i, "DeleteBookError", [message |-> handleError(error)],
              deleteBookError(state, handleError(error)))
    /\ snackBar' = Some("Failed to delete book: " \o handleError(error))
    /\ UNCHANGED listVars

ClearSelectedBook ==
    /\ state' = clearSelectedBook(state)
    /\ lastEvent' = Event("ClearSelectedBook", NoPayload, FALSE)
    /\ issued' = null
    /\ snackBar' = null
    /\ UNCHANGED <<inflight, listVars>>

\* ------------------------------------------------------------------ the store
\* loadData's params for the default controller state.
DefaultParams ==
    [Page |-> 1, PageSize |-> DefaultPageSize, SearchText |-> null, StatusId |-> null,
     GenreId |-> null, SortBy |-> "title", SortDir |-> "asc"]

\* Totals the server reports.
StoreReports ==
    { [totalCount |-> 0, totalPages |-> 0],
      [totalCount |-> 2, totalPages |-> 2] }

\* The transport failures the store's requests meet.
StoreErrors == {e \in TransportErrors : ~e.isErrorEvent}

\* What the forms submit: the server decides what is stored.
CreatePayloads == {[title |-> "a"]}
UpdatePayloads == [id : {1}, title : {"a"}]
\* The record the user asks to delete.
DeleteIds == {1}

\* No lookup request is awaiting its response.
NoLookups == [FetchStatuses |-> 0, FetchGenres |-> 0]

\* Neither the detail view nor the form is mounted.
NoView == [view |-> "none", id |-> 0]

\* No list component is mounted: its fields hold their initial values.
InitUnmounted ==
    /\ listMounted = FALSE
    /\ searchTerm = ""
    /\ selectedGenreId = null
    /\ selectedStatusId = null
    /\ sortConfig = [column |-> "title", direction |-> "asc"]
    /\ currentPage = 1
    /\ pageSize = DefaultPageSize
    /\ totalBooks = 0
    /\ totalPages = 0
    /\ timers = <<>>
    /\ lastSetPageSize = DefaultPageSize
    /\ resetPending = FALSE
    /\ routed = NoView
    /\ lookups = NoLookups

\* A filter as SetBookFilter leaves it.
SetFilter ==
    [searchTerm |-> "a", statusId |-> Some(1), genreId |-> Some(0),
     sortBy |-> "author", sortOrder |-> "desc"]

\* The store once a view has loaded the lookups and set a filter: no
\* request of the book collection has been issued yet.
Init ==
    /\ state = [Defaults EXCEPT !.statuses = LoadedStatuses, !.genres = LoadedGenres,
                                !.filter = SetFilter]
    /\ inflight = <<>>
    /\ lastEvent = [type |-> "init", payload |-> NoPayload, superseded |-> FALSE, n |-> 0]
    /\ issued = null
    /\ snackBar = null
    /\ InitUnmounted

Next ==
    \/ FetchPaginatedBooks(DefaultParams)
    \/ \E i \in Pending("FetchPaginatedBooks") :
          \E response \in PagedResponses(inflight[i].payload, PageItems, StoreReports) :
             FetchPaginatedBooksSuccess(i, response)
    \/ \E i \in Pending("FetchPaginatedBooks"), error \in StoreErrors : FetchPaginatedBooksError(i, error)
    \/ \E id \in BookIds : FetchBookById(id)
    \/ \E i \in Pending("FetchBookById"), book \in Book : FetchBookByIdSuccess(i, book)
    \/ \E i \in Pending("FetchBookById"), error \in StoreErrors : FetchBookByIdError(i, error)
    \/ \E payload \in CreatePayloads : CreateBook(payload)
    \/ \E i \in Pending("CreateBook"), book \in Book : CreateBookSuccess(i, book)
    \/ \E i \in Pending("CreateBook"), error \in StoreErrors : CreateBookError(i, error)
    \/ \E payload \in UpdatePayloads : UpdateBook(payload)
    \/ \E i \in Pending("UpdateBook"), book \in Book : UpdateBookSuccess(i, book)
    \/ \E i \in Pending("UpdateBook"), error \in StoreErrors : UpdateBookError(i, error)
    \/ \E id \in DeleteIds : DeleteBook(id)
    \/ \E i \in Pending("DeleteBook") : DeleteBookSuccess(i)
    \/ \E i \in Pending("DeleteBook"), error \in StoreErrors : DeleteBookError(i, error)
    \/ ClearSelectedBook

Spec == Init /\ [][Next]_vars

\* ------------------------------------------------- BookListComponent
\* The values the list view's controls can hand to the handlers.
SearchTerms == {"", "x"}
StatusOptions == {"", "1"}
GenreOptions == {"", "1"}
PageSizeOptions == {20}

\* parseInt(str, 10) on the option values of the two selects.
parseInt(str) == CHOOSE n \in 0..9 : ToString(n) = str

\* `value || undefined` on a string and on a number | null.
StringOrUndefined(value) == IF value = "" THEN null ELSE Some(value)
NumberOrUndefined(value) == IF value = null \/ value = Some(0) THEN null ELSE value

\* The params loadData builds from the signals it is given.
loadDataParams(page, size, term, statusId, genreId, sort) ==
    [Page |-> page, PageSize |-> size,
     SearchText |-> StringOrUndefined(term),
     StatusId |-> NumberOrUndefined(statusId),
     GenreId |-> NumberOrUndefined(genreId),
     SortBy |-> sort.column, SortDir |-> sort.direction]

\* loadData(), run after the caller has written the signals (primed).
loadData ==
    dispatchFetchPaginatedBooks(
        loadDataParams(currentPage', pageSize', searchTerm', selectedStatusId',
                       selectedGenreId', sortConfig'))

\* setTimeout(callback, ANIM_MS): every timer has the same delay, so the
\* callbacks run in the order they were scheduled.
Timer(callback, arg) == [callback |-> callback, arg |-> arg]

setTimeout(callback, arg) ==
    /\ Len(timers) < MaxTimers
    /\ timers' = Append(timers, Timer(callback, arg))

\* A handler only schedules: the store and the pagination signals stay.
Scheduled ==
    /\ issued' = null
    /\ snackBar' = null
    /\ UNCHANGED <<state, inflight, lastEvent, listMounted, currentPage, pageSize,
                   totalBooks, totalPages, viewVars>>

onSearch(term) ==
    /\ listMounted
    /\ searchTerm' = term
    /\ setTimeout("resetPage", 0)
    /\ resetPending' = TRUE
    /\ Scheduled
    /\ UNCHANGED lastSetPageSize
    /\ UNCHANGED <<selectedGenreId, selectedStatusId, sortConfig>>

onGenreChange(genreId) ==
    /\ listMounted
    /\ selectedGenreId' = IF genreId # "" THEN Some(parseInt(genreId)) ELSE null
    /\ setTimeout("resetPage", 0)
    /\ resetPending' = TRUE
    /\ Scheduled
    /\ UNCHANGED lastSetPageSize
    /\ UNCHANGED <<searchTerm, selectedStatusId, sortConfig>>

onStatusChange(statusId) ==
    /\ listMounted
    /\ selectedStatusId' = IF statusId # "" THEN Some(parseInt(statusId)) ELSE null
    /\ setTimeout("resetPage", 0)
    /\ resetPending' = TRUE
    /\ Scheduled
    /\ UNCHANGED lastSetPageSize
    /\ UNCHANGED <<searchTerm, selectedGenreId, sortConfig>>

\* The sortConfig onSortChange writes.
toggleSort_AlwaysAsc(current, column) ==
    [column |-> column, direction |-> "asc"]

toggleSort(current, column) ==
    IF current.column = column
    THEN [column |-> column,
          direction |-> IF current.direction = "asc" THEN "desc" ELSE "asc"]
    ELSE [column |-> column, direction |-> "asc"]

onSortChange(column) ==
    /\ listMounted
    /\ sortConfig' = toggleSort(sortConfig, column)
    /\ setTimeout("resetPage", 0)
    /\ resetPending' = TRUE
    /\ Scheduled
    /\ UNCHANGED lastSetPageSize
    /\ UNCHANGED <<searchTerm, selectedGenreId, selectedStatusId>>

canPreviousPage == currentPage > 1
canNextPage == currentPage < totalPages

\* The navigation handlers do nothing when their guard fails.
goToPage(page) ==
    /\ listMounted
    /\ page >= 1 /\ page <= totalPages
    /\ setTimeout("goToPage", page)
    /\ Scheduled
    /\ UNCHANGED <<searchTerm, selectedGenreId, selectedStatusId, sortConfig, resetPending,
                   lastSetPageSize>>

previousPage ==
    /\ listMounted
    /\ canPreviousPage
    /\ setTimeout("previousPage", 0)
    /\ Scheduled
    /\ UNCHANGED <<searchTerm, selectedGenreId, selectedStatusId, sortConfig, resetPending,
                   lastSetPageSize>>

nextPage ==
    /\ listMounted
    /\ canNextPage
    /\ setTimeout("nextPage", 0)
    /\ Scheduled
    /\ UNCHANGED <<searchTerm, selectedGenreId, selectedStatusId, sortConfig, resetPending,
                   lastSetPageSize>>

changePageSize(size) ==
    /\ listMounted
    /\ setTimeout("changePageSize", size)
    /\ lastSetPageSize' = size
    /\ resetPending' = TRUE
    /\ Scheduled
    /\ UNCHANGED <<searchTerm, selectedGenreId, selectedStatusId, sortConfig>>

\* Queued previousPage and nextPage callbacks can walk currentPage out of
\* 1..totalPages without limit; the model follows it one page either side.
PageRange == 0..(MaxPage + 1)

\* The oldest timer expires: its callback writes the signals and calls
\* loadData.
TimerFires ==
    /\ timers # <<>>
    /\ LET timer == Head(timers) IN
          /\ currentPage' = CASE timer.callback = "goToPage" -> timer.arg
                              [] timer.callback = "previousPage" -> currentPage - 1
                              [] timer.callback = "nextPage" -> currentPage + 1
                              [] OTHER -> 1
          /\ pageSize' = IF timer.callback = "changePageSize" THEN timer.arg ELSE pageSize
    /\ currentPage' \in PageRange
    /\ timers' = Tail(timers)
    /\ UNCHANGED <<searchTerm, selectedGenreId, selectedStatusId, sortConfig,
                   totalBooks, totalPages, listMounted, lastSetPageSize, viewVars>>
    /\ loadData
    /\ resetPending' = FALSE

\* What the server answers to the list view's requests.
ListItems == {<<>>}
ListReports == {[totalCount |-> t, totalPages |-> t] : t \in {0, MaxPage}}
ListErrors == {e \in TransportErrors : e.status = 0 /\ ~e.isErrorEvent}

\* The list view after ngOnInit, with the two lookups answered and the
\* first page requested.
InitList ==
    /\ state = patchLoading([Defaults EXCEPT !.statuses = LoadedStatuses,
                                             !.genres = LoadedGenres])
    /\ inflight = <<Request("FetchPaginatedBooks", [Page |-> 1, PageSize |-> DefaultPageSize])>>
    /\ lastEvent = [type |-> "FetchPaginatedBooks",
                    payload |-> [Page |-> 1, PageSize |-> DefaultPageSize],
                    superseded |-> FALSE, n |-> 0]
    /\ issued = Some(loadDataParams(1, DefaultPageSize, "", null, null,
                                    [column |-> "title", direction |-> "asc"]))
    /\ snackBar = null
    /\ listMounted = TRUE
    /\ searchTerm = ""
    /\ selectedGenreId = null
    /\ selectedStatusId = null
    /\ sortConfig = [column |-> "title", direction |-> "asc"]
    /\ currentPage = 1
    /\ pageSize = DefaultPageSize
    /\ totalBooks = 0
    /\ totalPages = 0
    /\ timers = <<>>
    /\ lastSetPageSize = DefaultPageSize
    /\ resetPending = FALSE
    /\ routed = NoView
    /\ lookups = NoLookups

\* The filter, sort and page-size controls of the list view.
NextList ==
    \/ \E term \in SearchTerms : onSearch(term)
    \/ \E genreId \in GenreOptions : onGenreChange(genreId)
    \/ \E statusId \in StatusOptions : onStatusChange(statusId)
    \/ \E column \in Columns : onSortChange(column)
    \/ \E size \in PageSizeOptions : changePageSize(size)
    \/ TimerFires
    \/ \E i \in Pending("FetchPaginatedBooks") :
          \E response \in PagedResponses(inflight[i].payload, ListItems, ListReports) :
             FetchPaginatedBooksSuccess(i, response)
    \/ \E i \in Pending("FetchPaginatedBooks"), error \in ListErrors :
          FetchPaginatedBooksError(i, error)

SpecList == InitList /\ [][NextList]_vars

\* The paginator of the list view, together with the search box.
NextPaging ==
    \/ \E term \in SearchTerms : onSearch(term)
    \/ \E page \in 1..MaxPage : goToPage(page)
    \/ previousPage
    \/ nextPage
    \/ TimerFires
    \/ \E i \in Pending("FetchPaginatedBooks") :
          \E response \in PagedResponses(inflight[i].payload, ListItems, ListReports) :
             FetchPaginatedBooksSuccess(i, response)
    \/ \E i \in Pending("FetchPaginatedBooks"), error \in ListErrors :
          FetchPaginatedBooksError(i, error)

SpecPaging == InitList /\ [][NextPaging]_vars

\* ------------------------------------------------- the client-side filter
\* { ...state.filter, ...payload }: the payload's fields over the filter's.
MergeFilter(filter, payload) ==
    [field \in DOMAIN filter |->
        IF field \in DOMAIN payload THEN payload[field] ELSE filter[field]]

\* Mutant: the payload is laid over the default filter.
setFilter_OverDefaults(st, payload) ==
    [st EXCEPT !.filter = MergeFilter(DefaultFilter, payload)]

setFilter(st, payload) ==
    [st EXCEPT !.filter = MergeFilter(st.filter, payload)]

clearFilter(st) ==
    [st EXCEPT !.filter = [searchTerm |-> "", statusId |-> null, genreId |-> null,
                           sortBy |-> "title", sortOrder |-> "asc"]]

\* A local action: reduced at once, nothing is sent.
Local(type, payload, st) ==
    /\ state' = st
    /\ lastEvent' = Event(type, payload, FALSE)
    /\ issued' = null
    /\ snackBar' = null
    /\ UNCHANGED <<inflight, listVars>>

SetBookFilter(payload) == Local("SetBookFilter", payload, setFilter(state, payload))

ClearBookFilter == Local("ClearBookFilter", NoPayload, clearFilter(state))

\* SetBookFilter payloads: a whole BookFilter, or some of its fields.
FilterPayloads ==
    { SetFilter,
      [searchTerm |-> "b"],
      [statusId |-> Some(0), genreId |-> Some(1)],
      [sortBy |-> "title", sortOrder |-> "asc"] }

\* The book a detail view asks for.
DetailIds == {1}

\* Pages the server returns while the filter is being edited.
FilterViewItems == {<<>>, <<[id |-> 1, title |-> "a"]>>}

NextFilter ==
    \/ \E payload \in FilterPayloads : SetBookFilter(payload)
    \/ ClearBookFilter
    \/ ClearSelectedBook
    \/ FetchPaginatedBooks(DefaultParams)
    \/ \E i \in Pending("FetchPaginatedBooks") :
          \E response \in PagedResponses(inflight[i].payload, FilterViewItems, StoreReports) :
             FetchPaginatedBooksSuccess(i, response)
    \/ \E i \in Pending("FetchPaginatedBooks"), error \in ListErrors :
          FetchPaginatedBooksError(i, error)
    \/ \E id \in DetailIds : FetchBookById(id)
    \/ \E i \in Pending("FetchBookById"), book \in Book : FetchBookByIdSuccess(i, book)
    \/ \E i \in Pending("FetchBookById"), error \in ListErrors : FetchBookByIdError(i, error)

SpecFilter == Init /\ [][NextFilter]_vars

\* ------------------------------------------------- detail view and form
\* The fields of the list component, which the other views leave alone.
listFields == <<listMounted, signals, timers, lastSetPageSize, resetPending>>

\* FetchStatuses and FetchGenres call the service without patching the
\* state; lookups counts the requests of each kind still unanswered.
dispatchLookups ==
    /\ lookups.FetchStatuses < MaxInflight
    /\ lookups.FetchGenres < MaxInflight
    /\ lookups' = [FetchStatuses |-> lookups.FetchStatuses + 1,
                   FetchGenres |-> lookups.FetchGenres + 1]

fetchStatusesSuccess(st, payload) == [st EXCEPT !.statuses = payload]

fetchGenresSuccess(st, payload) == [st EXCEPT !.genres = payload]

\* A lookup request of the given kind is answered.
LookupResult(kind, type, payload, st, notice) ==
    /\ lookups[kind] > 0
    /\ lookups' = [lookups EXCEPT ![kind] = @ - 1]
    /\ state' = st
    /\ lastEvent' = Event(type, payload, FALSE)
    /\ issued' = null
    /\ snackBar' = notice
    /\ UNCHANGED <<inflight, listFields, routed>>

FetchStatusesSuccess(statuses) ==
    LookupResult("FetchStatuses", "FetchStatusesSuccess", [items |-> statuses],
                 fetchStatusesSuccess(state, statuses), null)

\* fetchStatusesError has an empty body.
FetchStatusesError(error) ==
    LookupResult("FetchStatuses", "FetchStatusesError", [message |-> handleError(error)],
                 state, null)

FetchGenresSuccess(genres) ==
    LookupResult("FetchGenres", "FetchGenresSuccess", [items |-> genres],
                 fetchGenresSuccess(state, genres), null)

\* fetchGenresError only opens the snack bar.
FetchGenresError(error) ==
    LookupResult("FetchGenres", "FetchGenresError", [message |-> handleError(error)],
                 state, Some("Failed to load genres: " \o handleError(error)))

\* BookDetailComponent.ngOnInit on route books/:id: bookId is set and
\* loadBookDetails dispatches FetchBookById when bookId is truthy.
OpenDetail(id) ==
    /\ routed = NoView
    /\ routed' = [view |-> "detail", id |-> id]
    /\ IF id # 0
       THEN Dispatch("FetchBookById", [id |-> id])
       ELSE /\ UNCHANGED <<state, inflight, lastEvent>>
            /\ issued' = null
            /\ snackBar' = null
    /\ UNCHANGED <<listFields, lookups>>

\* BookDetailComponent.ngOnDestroy dispatches ClearSelectedBook.
LeaveDetail ==
    /\ routed.view = "detail"
    /\ routed' = NoView
    /\ state' = clearSelectedBook(state)
    /\ lastEvent' = Event("ClearSelectedBook", NoPayload, FALSE)
    /\ issued' = null
    /\ snackBar' = null
    /\ UNCHANGED <<inflight, listFields, lookups>>

\* BookFormComponent.ngOnInit: loadLookupData, then handleRouteParams. On
\* books/:id/edit the book is fetched unless it is the one selected; on
\* books/add the selection is cleared.
OpenForm(idParam) ==
    /\ routed = NoView
    /\ dispatchLookups
    /\ issued' = null
    /\ snackBar' = null
    /\ IF idParam # null
       THEN /\ routed' = [view |-> "edit", id |-> idParam[1]]
            /\ IF state.selectedBook = null \/ state.selectedBook[1].id # idParam[1]
               THEN /\ Len(inflight) < MaxInflight
                    /\ state' = patchLoading(state)
                    /\ inflight' = Insert(inflight, Request("FetchBookById", [id |-> idParam[1]]))
                    /\ lastEvent' = Event("FetchBookById", [id |-> idParam[1]], FALSE)
               ELSE /\ lastEvent' = Event("FetchGenres", NoPayload, FALSE)
                    /\ UNCHANGED <<state, inflight>>
       ELSE /\ routed' = [view |-> "add", id |-> 0]
            /\ state' = clearSelectedBook(state)
            /\ lastEvent' = Event("ClearSelectedBook", NoPayload, FALSE)
            /\ UNCHANGED inflight
    /\ UNCHANGED listFields

\* BookFormComponent.ngOnDestroy only completes destroy$.
LeaveForm ==
    /\ routed.view \in {"edit", "add"}
    /\ routed' = NoView
    /\ issued' = null
    /\ snackBar' = null
    /\ UNCHANGED <<state, inflight, lastEvent, listFields, lookups>>

\* The app as started: the store holds its defaults and no view is routed.
InitViews ==
    /\ state = Defaults
    /\ inflight = <<>>
    /\ lastEvent = [type |-> "init", payload |-> NoPayload, superseded |-> FALSE, n |-> 0]
    /\ issued = null
    /\ snackBar = null
    /\ InitUnmounted

\* The route parameter of the form: absent on books/add.
FormRoutes == {null} \cup {Some(id) : id \in DetailIds}

NextViews ==
    \/ \E id \in DetailIds : OpenDetail(id)
    \/ LeaveDetail
    \/ \E idParam \in FormRoutes : OpenForm(idParam)
    \/ LeaveForm
    \/ \E i \in Pending("FetchBookById"), book \in Book : FetchBookByIdSuccess(i, book)
    \/ \E i \in Pending("FetchBookById"), error \in StoreErrors : FetchBookByIdError(i, error)
    \/ FetchStatusesSuccess(LoadedStatuses)
    \/ \E error \in StoreErrors : FetchStatusesError(error)
    \/ FetchGenresSuccess(LoadedGenres)
    \/ \E error \in StoreErrors : FetchGenresError(error)

SpecViews == InitViews /\ [][NextViews]_vars

\* ------------------------------------------------- transport failures
\* Every kind of HttpErrorResponse: a client-side ErrorEvent (status 0), an
\* unreachable server (status 0) and non-2xx responses, with and without
\* a message text.
HttpFailures ==
    {f \in [isErrorEvent : BOOLEAN, status : {0, 404, 500},
            message : {"", "Failed to fetch"}] : f.isErrorEvent => f.status = 0}

NextErrors ==
    \/ \E id \in DetailIds : FetchBookById(id)
    \/ \E i \in Pending("FetchBookById"), book \in Book : FetchBookByIdSuccess(i, book)
    \/ \E i \in Pending("FetchBookById"), error \in HttpFailures : FetchBookByIdError(i, error)
    \/ FetchPaginatedBooks(DefaultParams)
    \/ \E i \in Pending("FetchPaginatedBooks") :
          \E response \in PagedResponses(inflight[i].payload, FilterViewItems, StoreReports) :
             FetchPaginatedBooksSuccess(i, response)
    \/ \E i \in Pending("FetchPaginatedBooks"), error \in HttpFailures :
          FetchPaginatedBooksError(i, error)

SpecErrors == Init /\ [][NextErrors]_vars

\* ------------------------------------------------- the select controls
\* The option values of the status and genre selects once the lookups
\* have loaded: "" for "all", and the id of every loaded entry.
IdOptions ==
    {""} \cup {ToString(LoadedStatuses[k].statusId) : k \in DOMAIN LoadedStatuses}

\* The query string getBooks builds from the params it is handed: Page and
\* PageSize always, the others when present (the ids also when 0).
getBooks(params) ==
    [Page |-> Some(ToString(params.Page)),
     PageSize |-> Some(ToString(params.PageSize)),
     SearchText |-> IF params.SearchText # null /\ params.SearchText # Some("")
                    THEN params.SearchText ELSE null,
     StatusId |-> IF params.StatusId # null
                  THEN Some(ToString(params.StatusId[1])) ELSE null,
     GenreId |-> IF params.GenreId # null
                 THEN Some(ToString(params.GenreId[1])) ELSE null,
     SortBy |-> IF params.SortBy # "" THEN Some(params.SortBy) ELSE null,
     SortDir |-> IF params.SortDir # "" THEN Some(params.SortDir) ELSE null]

\* The list the template renders.
paginatedBooks == state.books

\* The search box, the two selects and the sortable column headers.
NextSelects ==
    \/ \E term \in SearchTerms : onSearch(term)
    \/ \E genreId \in IdOptions : onGenreChange(genreId)
    \/ \E statusId \in IdOptions : onStatusChange(statusId)
    \/ \E column \in Columns : onSortChange(column)
    \/ TimerFires
    \/ \E i \in Pending("FetchPaginatedBooks") :
          \E response \in PagedResponses(inflight[i].payload, ListItems, ListReports) :
             FetchPaginatedBooksSuccess(i, response)
    \/ \E i \in Pending("FetchPaginatedBooks"), error \in ListErrors :
          FetchPaginatedBooksError(i, error)

SpecSelects == InitList /\ [][NextSelects]_vars

\* ------------------------------------------------- the filteredBooks selector
\* The UTF-16 code units of the strings the selector compares and searches.
CodeUnits(str) ==
    CASE str = "" -> <<>>
      [] str = "a" -> <<97>>
      [] str = "b" -> <<98>>
      [] str = "B" -> <<66>>
      [] str = "Ab" -> <<65, 98>>
      [] str = "Read" -> <<82, 101, 97, 100>>
      [] str = "Want" -> <<87, 97, 110, 116>>
      [] str = "Fiction" -> <<70, 105, 99, 116, 105, 111, 110>>
      [] str = "Poetry" -> <<80, 111, 101, 116, 114, 121>>

\* String.prototype.toLowerCase and includes, on code units.
toLowerCase(text) ==
    [k \in DOMAIN text |-> IF text[k] \in 65..90 THEN text[k] + 32 ELSE text[k]]

includes(text, term) ==
    \E k \in 0..(Len(text) - Len(term)) : SubSeq(text, k + 1, k + Len(term)) = term

\* a > b on two strings (code unit order) and on two numbers.
TextGreater(a, b) ==
    \E k \in 1..Len(a) :
       /\ k - 1 <= Len(b)
       /\ \A j \in 1..(k - 1) : a[j] = b[j]
       /\ (k > Len(b) \/ a[k] > b[k])

\* The records of an already fetched full set: the fields the selector reads.
ShelfBooks ==
    {[id |-> 1, title |-> "a", author |-> "b", genre |-> "Fiction", status |-> "Read",
      rating |-> null],
     [id |-> 2, title |-> "a", author |-> "B", genre |-> "Poetry", status |-> "Want",
      rating |-> Some(0)],
     [id |-> 3, title |-> "Ab", author |-> "a", genre |-> "Fiction", status |-> "Read",
      rating |-> Some(1)]}

Injections(n) == {p \in [1..n -> 1..n] : \A i, j \in 1..n : p[i] = p[j] => i = j}

\* The lists of up to MaxBooks records with pairwise distinct ids, in any order.
Shelves ==
    UNION {{[k \in 1..n |-> b[k]] : b \in {c \in [1..n -> ShelfBooks] :
                                              \A i, j \in 1..n : c[i].id = c[j].id => i = j}}
           : n \in 0..MaxBooks}

SortColumns == {"title", "author", "rating"}

SelectorFilters ==
    [searchTerm : {"", "a", "B"}, statusId : {null, Some(0), Some(1)},
     genreId : {null, Some(0), Some(1)}, sortBy : SortColumns, sortOrder : Directions]

\* filtered.filter(...) keeps the order of the records it keeps.
SelectSeq2(list, Keep(_)) ==
    LET F[k \in 0..Len(list)] ==
            IF k = 0 THEN <<>>
            ELSE IF Keep(list[k]) THEN Append(F[k - 1], list[k]) ELSE F[k - 1]
    IN F[Len(list)]

matchesSearch(book, filter) ==
    filter.searchTerm # "" =>
        LET term == toLowerCase(CodeUnits(filter.searchTerm)) IN
           \/ includes(toLowerCase(CodeUnits(book.title)), term)
           \/ includes(toLowerCase(CodeUnits(book.author)), term)

\* state.genres.find(...): no record passes when the id is not in the lookup.
matchesGenre(book, filter, genres) ==
    filter.genreId # null =>
        \E k \in DOMAIN genres :
           /\ genres[k].genreId = filter.genreId[1]
           /\ \A j \in 1..(k - 1) : genres[j].genreId # filter.genreId[1]
           /\ book.genre = genres[k].genreName

\* state.statuses.find(...): the step is skipped when the id is not in the lookup.
matchesStatus(book, filter, statuses) ==
    (filter.statusId # null /\ \E k \in DOMAIN statuses : statuses[k].statusId = filter.statusId[1])
        => \E k \in DOMAIN statuses :
              /\ statuses[k].statusId = filter.statusId[1]
              /\ \A j \in 1..(k - 1) : statuses[j].statusId # filter.statusId[1]
              /\ book.status = statuses[k].statusName

\* The switch on filter.sortBy: aVal > bVal for the selected field.
NumberOr0(value) == IF value = null THEN 0 ELSE value[1]

FieldGreater(a, b, sortBy) ==
    CASE sortBy = "author" -> TextGreater(CodeUnits(a.author), CodeUnits(b.author))
      [] sortBy = "genre" -> TextGreater(CodeUnits(a.genre), CodeUnits(b.genre))
      [] sortBy = "status" -> TextGreater(CodeUnits(a.status), CodeUnits(b.status))
      [] sortBy = "rating" -> NumberOr0(a.rating) > NumberOr0(b.rating)
      [] OTHER -> TextGreater(CodeUnits(a.title), CodeUnits(b.title))

\* The comparator handed to Array.prototype.sort: it never returns 0.
compareFn(a, b, filter) ==
    IF filter.sortOrder = "asc"
    THEN IF FieldGreater(a, b, filter.sortBy) THEN 1 ELSE -1
    ELSE IF FieldGreater(b, a, filter.sortBy) THEN 1 ELSE -1

\* Array.prototype.sort: where the comparator orders two records
\* consistently the result follows it; where it answers -1 both ways (the
\* records are equal on the field) their order is left to the engine.
sort(list, filter) ==
    {[k \in 1..Len(list) |-> list[p[k]]] : p \in
        {q \in Injections(Len(list)) :
            \A i, j \in 1..Len(list) :
               (i < j /\ compareFn(list[q[i]], list[q[j]], filter) > 0)
                  => compareFn(list[q[j]], list[q[i]], filter) > 0}}

\* The lists the selector can return in a state.
filteredBooks(st) ==
    LET Keep(book) == /\ matchesSearch(book, st.filter)
                      /\ matchesGenre(book, st.filter, st.genres)
                      /\ matchesStatus(book, st.filter, st.statuses)
    IN sort(SelectSeq2(st.books, Keep), st.filter)

\* The store holds a fetched set of records and both lookups.
InitSelector ==
    /\ InitUnmounted
    /\ \E shelf \in Shelves :
          state = [Defaults EXCEPT !.books = shelf, !.statuses = LoadedStatuses,
                                   !.genres = LoadedGenres]
    /\ inflight = <<>>
    /\ lastEvent = [type |-> "init", payload |-> NoPayload, superseded |-> FALSE, n |-> 0]
    /\ issued = null
    /\ snackBar = null

NextSelector ==
    \/ \E payload \in SelectorFilters : SetBookFilter(payload)
    \/ ClearBookFilter

SpecSelector == InitSelector /\ [][NextSelector]_vars

\* ------------------------------------------------- a page and a create
\* The list asks for pages of one record; the server returns at most that
\* many.
SmallPageParams == [DefaultParams EXCEPT !.PageSize = 1]

SmallPages == {items \in PageItems : Len(items) <= SmallPageParams.PageSize}

NextCache ==
    \/ FetchPaginatedBooks(SmallPageParams)
    \/ \E i \in Pending("FetchPaginatedBooks") :
          \E response \in PagedResponses(inflight[i].payload, SmallPages, StoreReports) :
             FetchPaginatedBooksSuccess(i, response)
    \/ \E i \in Pending("FetchPaginatedBooks"), error \in StoreErrors :
          FetchPaginatedBooksError(i, error)
    \/ \E payload \in CreatePayloads : CreateBook(payload)
    \/ \E i \in Pending("CreateBook"), book \in Book : CreateBookSuccess(i, book)
    \/ \E i \in Pending("CreateBook"), error \in StoreErrors : CreateBookError(i, error)
    \/ \E id \in DeleteIds : DeleteBook(id)
    \/ \E i \in Pending("DeleteBook") : DeleteBookSuccess(i)

SpecCache == Init /\ [][NextCache]_vars

\* ------------------------------------------------- submitting the form
\* What the form holds when it is submitted: title stands for the required
\* controls, and the form is invalid while it is empty.
FormValues == {[title |-> ""], [title |-> "a"]}

\* isEditMode as subscribeToSelectedBook leaves it: the subscription runs
\* at the end of ngOnInit and on every change of the selection, after
\* handleRouteParams has set the flag.
isEditMode == state.selectedBook # null

\* onSubmit(): nothing on an invalid form; otherwise UpdateBook under the
\* selected book's id in edit mode, CreateBook if not.
onSubmit(formValue) ==
    /\ routed.view \in {"edit", "add"}
    /\ IF formValue.title = ""
       THEN /\ issued' = null
            /\ snackBar' = null
            /\ UNCHANGED <<state, inflight, lastEvent>>
       ELSE IF isEditMode
            THEN Dispatch("UpdateBook",
                          [id |-> state.selectedBook[1].id, title |-> formValue.title])
            ELSE Dispatch("CreateBook", [title |-> formValue.title])
    /\ UNCHANGED <<listFields, routed, lookups>>

NextForm ==
    \/ \E idParam \in FormRoutes : OpenForm(idParam)
    \/ LeaveForm
    \/ \E formValue \in FormValues : onSubmit(formValue)
    \/ \E i \in Pending("FetchBookById"), book \in Book : FetchBookByIdSuccess(i, book)
    \/ \E i \in Pending("FetchBookById"), error \in ListErrors : FetchBookByIdError(i, error)
    \/ \E i \in Pending("CreateBook"), book \in Book : CreateBookSuccess(i, book)
    \/ \E i \in Pending("UpdateBook"), book \in Book : UpdateBookSuccess(i, book)
    \/ FetchStatusesSuccess(LoadedStatuses)
    \/ FetchGenresSuccess(LoadedGenres)

SpecForm == InitViews /\ [][NextForm]_vars

\* ------------------------------------------------- issuing requests
\* store.dispatch(new FetchStatuses()) and store.dispatch(new FetchGenres()),
\* one at a time.
dispatchLookup(kind) ==
    /\ lookups[kind] < MaxInflight
    /\ lookups' = [lookups EXCEPT ![kind] = @ + 1]
    /\ lastEvent' = Event(kind, NoPayload, FALSE)
    /\ issued' = null
    /\ snackBar' = null
    /\ UNCHANGED <<state, inflight, listFields, routed>>

FetchStatuses == dispatchLookup("FetchStatuses")

FetchGenres == dispatchLookup("FetchGenres")

\* The record the server answers a detail fetch with.
IssueBooks == {b \in Book : b.id \in DetailIds /\ b.title = "a"}

NextIssue ==
    \/ FetchPaginatedBooks(DefaultParams)
    \/ \E id \in DetailIds : FetchBookById(id)
    \/ \E payload \in CreatePayloads : CreateBook(payload)
    \/ \E payload \in UpdatePayloads : UpdateBook(payload)
    \/ \E id \in DeleteIds : DeleteBook(id)
    \/ FetchStatuses
    \/ FetchGenres
    \/ \E i \in Pending("FetchPaginatedBooks") :
          \E response \in PagedResponses(inflight[i].payload, FilterViewItems, StoreReports) :
             FetchPaginatedBooksSuccess(i, response)
    \/ \E i \in Pending("FetchBookById"), book \in IssueBooks : FetchBookByIdSuccess(i, book)
    \/ \E i \in Pending("CreateBook"), error \in ListErrors : CreateBookError(i, error)
    \/ \E i \in Pending("UpdateBook"), error \in ListErrors : UpdateBookError(i, error)
    \/ \E i \in Pending("DeleteBook"), error \in ListErrors : DeleteBookError(i, error)
    \/ FetchStatusesSuccess(LoadedStatuses)
    \/ FetchGenresSuccess(LoadedGenres)

SpecIssue == InitViews /\ [][NextIssue]_vars

\* ------------------------------------------------- the paginator's buttons
\* Total page counts the server reports to the paginator.
PagerPages == 8
PagerTotals == 0..PagerPages

maxButtons == 5
window == 1

Max(a, b) == IF a > b THEN a ELSE b
Min(a, b) == IF a < b THEN a ELSE b

\* Mutant: the window is not clamped to 2..total-1.
pageNumbers_Unclamped(total, current) ==
    IF total <= maxButtons
    THEN [i \in 1..total |-> i]
    ELSE LET left == current - window
             right == current + window
         IN  <<1>> \o (IF left > 2 THEN <<-1>> ELSE <<>>)
                   \o [i \in 1..(right - left + 1) |-> left + i - 1]
                   \o (IF right < total - 1 THEN <<-1>> ELSE <<>>)
                   \o <<total>>

\* pageNumbers(): -1 stands for an ellipsis.
pageNumbers(total, current) ==
    IF total <= maxButtons
    THEN [i \in 1..total |-> i]
    ELSE LET left == Max(2, current - window)
             right == Min(total - 1, current + window)
         IN  <<1>> \o (IF left > 2 THEN <<-1>> ELSE <<>>)
                   \o [i \in 1..(right - left + 1) |-> left + i - 1]
                   \o (IF right < total - 1 THEN <<-1>> ELSE <<>>)
                   \o <<total>>

\* The list view with page `page` of `total` on display.
InitPager ==
    \E total \in PagerTotals, page \in 1..PagerPages :
       /\ page <= Max(total, 1)
       /\ LET response == [items |-> <<>>, page |-> page, pageSize |-> DefaultPageSize,
                           totalCount |-> total, totalPages |-> total]
          IN  /\ state = fetchPaginatedBooksSuccess(
                             [Defaults EXCEPT !.statuses = LoadedStatuses,
                                              !.genres = LoadedGenres], response)
              /\ lastEvent = [type |-> "FetchPaginatedBooksSuccess", payload |-> response,
                              superseded |-> FALSE, n |-> 0]
       /\ inflight = <<>>
       /\ issued = null
       /\ snackBar = null
       /\ listMounted = TRUE
       /\ searchTerm = ""
       /\ selectedGenreId = null
       /\ selectedStatusId = null
       /\ sortConfig = [column |-> "title", direction |-> "asc"]
       /\ currentPage = page
       /\ pageSize = DefaultPageSize
       /\ totalBooks = total
       /\ totalPages = total
       /\ timers = <<>>
       /\ lastSetPageSize = DefaultPageSize
       /\ resetPending = FALSE
       /\ routed = NoView
       /\ lookups = NoLookups

\* The page buttons rendered from pageNumbers(), Previous and Next.
NextPager ==
    \/ \E k \in DOMAIN pageNumbers(totalPages, currentPage) :
          /\ pageNumbers(totalPages, currentPage)[k] # -1
          /\ goToPage(pageNumbers(totalPages, currentPage)[k])
    \/ previousPage
    \/ nextPage
    \/ TimerFires

SpecPager == InitPager /\ [][NextPager]_vars

\* ------------------------------------------------------------------ claims
Applied(type) == lastEvent'.type = type

PaginationOf(response) ==
    [currentPage |-> response.page, pageSize |-> response.pageSize,
     totalCount |-> response.totalCount, totalPages |-> response.totalPages]

\* C1: once the success of a later page fetch has been applied, the success
\* of an earlier (superseded) page fetch changes neither books nor pagination.
C1_SupersededNeverOverwrites ==
    [][(Applied("FetchPaginatedBooksSuccess") /\ lastEvent'.superseded)
          => (state'.books = state.books /\ state'.pagination = state.pagination)]_vars

\* C2: applying FetchPaginatedBooksSuccess makes books the response's items
\* and pagination the response's page, pageSize, totalCount and totalPages,
\* sets loading to false and error to null, and leaves selectedBook, filter,
\* statuses and genres as they were.
C2_PageSuccessReplaces ==
    [][Applied("FetchPaginatedBooksSuccess")
          => /\ state'.books = lastEvent'.payload.items
             /\ state'.pagination = PaginationOf(lastEvent'.payload)
             /\ state'.loading = FALSE
             /\ state'.error = null
             /\ state'.selectedBook = state.selectedBook
             /\ state'.filter = state.filter
             /\ state'.statuses = state.statuses
             /\ state'.genres = state.genres]_vars

\* A page success was applied over a non-empty selection, with two items and
\* server totals that a client-side computation would not give.
C2_Witness ==
    /\ lastEvent.type = "FetchPaginatedBooksSuccess"
    /\ Len(state.books) = 2
    /\ state.selectedBook # null
    /\ state.pagination.totalPages = 2
    /\ state.filter = SetFilter
    /\ state.statuses = LoadedStatuses

\* C3: applying FetchPaginatedBooksError leaves books and pagination as they
\* were, makes error a non-empty string and loading false.
C3_PageErrorKeepsBooks ==
    [][Applied("FetchPaginatedBooksError")
          => /\ state'.books = state.books
             /\ state'.pagination = state.pagination
             /\ state'.error # null
             /\ Len(state'.error[1]) > 0
             /\ state'.loading = FALSE]_vars

\* A page fetch failed while a loaded page was on display.
C3_Witness ==
    /\ lastEvent.type = "FetchPaginatedBooksError"
    /\ Len(state.books) = 2
    /\ state.pagination # DefaultPagination
    /\ state.error # null
    /\ ~state.loading

Matching(books, id) == {k \in 1..Len(books) : books[k].id = id}

SelectedAfterDelete(st, id) ==
    IF st.selectedBook # null /\ st.selectedBook[1].id = id THEN null ELSE st.selectedBook

\* C4: once every deferred timer has fired, the page fetch last issued by the
\* list view carries the search text, status id, genre id, sort column, sort
\* direction and page size the user last set. The four filter and sort
\* signals are written by the gesture handlers only, so they hold the values
\* last set; lastSetPageSize holds the page size last chosen.
C4_LastRequestCarriesLastSet ==
    (listMounted /\ timers = <<>> /\ issued # null)
       => /\ issued[1].SearchText = (IF searchTerm = "" THEN null ELSE Some(searchTerm))
          /\ issued[1].StatusId = selectedStatusId
          /\ issued[1].GenreId = selectedGenreId
          /\ issued[1].SortBy = sortConfig.column
          /\ issued[1].SortDir = sortConfig.direction
          /\ issued[1].PageSize = lastSetPageSize

\* C5: the first page fetch issued after a change of search text, genre,
\* status, sort or page size carries Page = 1, whichever timers were pending
\* when the change was made.
C5_ChangeResetsPage ==
    [][(issued' # null /\ resetPending) => issued'[1].Page = 1]_vars

\* C6: onSortChange on the active column flips the direction, and a second
\* onSortChange on that column gives back the sortConfig it started from;
\* onSortChange on another column selects it with direction asc.
C6_SortToggle ==
    [][\A column \in Columns :
          onSortChange(column)
             => /\ sortConfig'.column = column
                /\ sortConfig.column = column
                      => /\ sortConfig.direction = "asc" => sortConfig'.direction = "desc"
                         /\ sortConfig.direction = "desc" => sortConfig'.direction = "asc"
                         /\ toggleSort(sortConfig', column) = sortConfig
                /\ sortConfig.column # column => sortConfig'.direction = "asc"]_vars

\* Two clicks on "author" have been made from the initial title/asc: the
\* first selected the column, the second flipped it to desc.
C6_Witness ==
    /\ sortConfig = [column |-> "author", direction |-> "desc"]
    /\ Len(timers) = 2
    /\ \A k \in 1..Len(timers) : timers[k].callback = "resetPage"

\* C7 as stated: DeleteBookSuccess(id) removes exactly one record, the one
\* whose id is id, keeps the others in order, and clears a matching selectedBook.
C7_DeleteRemovesExactlyOne ==
    [][Applied("DeleteBookSuccess")
          => /\ \E k \in Matching(state.books, lastEvent'.payload.id) :
                   state'.books = RemoveAt(state.books, k)
             /\ state'.selectedBook = SelectedAfterDelete(state, lastEvent'.payload.id)]_vars

\* C7 amended: DeleteBookSuccess(id) removes every record whose id is id
\* (none when no record has it, several when books holds the id twice),
\* keeps the others in order, and clears a matching selectedBook.
C7_DeleteRemovesMatching ==
    [][Applied("DeleteBookSuccess")
          => /\ state'.books = SelectSeq(state.books, LAMBDA b : b.id # lastEvent'.payload.id)
             /\ Len(state'.books) =
                    Len(state.books) - Cardinality(Matching(state.books, lastEvent'.payload.id))
             /\ state'.selectedBook = SelectedAfterDelete(state, lastEvent'.payload.id)]_vars

\* A delete was applied to two held books and left one that does not match,
\* with the (matching) selection cleared.
C7_Witness ==
    /\ lastEvent.type = "DeleteBookSuccess"
    /\ lastEvent.n = 2
    /\ Len(state.books) = 1
    /\ state.books[1].id # lastEvent.payload.id
    /\ state.selectedBook = null

\* C8: CreateBookSuccess appends the returned book as the last record of
\* books, whose length grows by one with the earlier records unchanged;
\* CreateBookError leaves books unchanged and sets error.
C8_CreateAppendsOne ==
    [][/\ Applied("CreateBookSuccess")
            => /\ Len(state'.books) = Len(state.books) + 1
               /\ state'.books[Len(state'.books)] = lastEvent'.payload
               /\ SubSeq(state'.books, 1, Len(state.books)) = state.books
       /\ Applied("CreateBookError")
            => /\ state'.books = state.books
               /\ state'.error = Some(lastEvent'.payload.message)]_vars

\* A create was applied to a store that already held a book.
C8_Witness ==
    /\ lastEvent.type = "CreateBookSuccess"
    /\ lastEvent.n = 1
    /\ Len(state.books) = 2

\* C9: applying UpdateBookSuccess, also after a FetchBookById of that id,
\* makes selectedBook the record the server returned and replaces every
\* record of books with that id by it; the length and the other records stay.
C9_UpdateRoundTrip ==
    [][Applied("UpdateBookSuccess")
          => /\ state'.selectedBook = Some(lastEvent'.payload)
             /\ Len(state'.books) = Len(state.books)
             /\ \A k \in 1..Len(state.books) :
                   state'.books[k] = IF state.books[k].id = lastEvent'.payload.id
                                     THEN lastEvent'.payload ELSE state.books[k]]_vars

\* The update's result is on display: the server's record differs from the
\* submitted payload (title "a"), and books holds it beside another record.
C9_Witness ==
    /\ lastEvent.type = "UpdateBookSuccess"
    /\ lastEvent.payload = [id |-> 1, title |-> "b"]
    /\ state.selectedBook = Some([id |-> 1, title |-> "b"])
    /\ Len(state.books) = 2
    /\ \E k \in 1..2 : state.books[k] = [id |-> 1, title |-> "b"]
    /\ \E k \in 1..2 : state.books[k].id = 2

\* C10: UpdateBookError and DeleteBookError set error to the failure message
\* and loading to false and leave books, selectedBook and pagination alone.
C10_FailedWriteKeepsState ==
    [][(Applied("UpdateBookError") \/ Applied("DeleteBookError"))
          => /\ state'.error = Some(lastEvent'.payload.message)
             /\ state'.loading = FALSE
             /\ state'.books = state.books
             /\ state'.selectedBook = state.selectedBook
             /\ state'.pagination = state.pagination]_vars

\* A delete failed with books, a selection and a served pagination in place.
C10_Witness ==
    /\ lastEvent.type = "DeleteBookError"
    /\ Len(state.books) = 2
    /\ state.selectedBook # null
    /\ state.pagination # DefaultPagination
    /\ state.error # null

\* C11: dispatching FetchBookById sets loading to true and error to null;
\* its success makes selectedBook the returned book with loading false and
\* error null; its failure keeps selectedBook, sets error to the message and
\* loading to false; none of the three changes books or pagination.
C11_DetailFetchContract ==
    [][/\ Applied("FetchBookById")
             => /\ state'.loading = TRUE
                /\ state'.error = null
                /\ state'.selectedBook = state.selectedBook
                /\ state'.books = state.books
                /\ state'.pagination = state.pagination
       /\ Applied("FetchBookByIdSuccess")
             => /\ state'.selectedBook = Some(lastEvent'.payload)
                /\ state'.loading = FALSE
                /\ state'.error = null
                /\ state'.books = state.books
                /\ state'.pagination = state.pagination
       /\ Applied("FetchBookByIdError")
             => /\ state'.selectedBook = state.selectedBook
                /\ state'.error = Some(lastEvent'.payload.message)
                /\ state'.loading = FALSE
                /\ state'.books = state.books
                /\ state'.pagination = state.pagination]_vars

\* A detail fetch has failed while a book was selected and a page was held.
C11_Witness ==
    /\ lastEvent.type = "FetchBookByIdError"
    /\ state.selectedBook # null
    /\ state.books # <<>>
    /\ state.pagination # DefaultPagination

\* C12: SetBookFilter lays the payload's fields over the current filter,
\* ClearBookFilter makes the filter the default one, ClearSelectedBook makes
\* selectedBook null; none of them sends a request, and each leaves every
\* other field of the state as it was.
C12_LocalTransitions ==
    [][/\ Applied("SetBookFilter")
             => /\ \A field \in DOMAIN state.filter :
                      state'.filter[field] =
                         IF field \in DOMAIN lastEvent'.payload
                         THEN lastEvent'.payload[field] ELSE state.filter[field]
                /\ DOMAIN state'.filter = DOMAIN state.filter
                /\ state' = [state EXCEPT !.filter = state'.filter]
                /\ inflight' = inflight
       /\ Applied("ClearBookFilter")
             => /\ state'.filter = DefaultFilter
                /\ state' = [state EXCEPT !.filter = state'.filter]
                /\ inflight' = inflight
       /\ Applied("ClearSelectedBook")
             => /\ state'.selectedBook = null
                /\ state' = [state EXCEPT !.selectedBook = state'.selectedBook]
                /\ inflight' = inflight]_vars

\* A filter has been set field by field over a non-default one while the
\* store held a page, a selection and an error, with a request in flight.
C12_Witness ==
    /\ lastEvent.type = "SetBookFilter"
    /\ state.filter.searchTerm = "b"
    /\ state.filter.sortBy = "author"
    /\ state.books # <<>>
    /\ state.selectedBook # null
    /\ state.error # null
    /\ inflight # <<>>

\* C13: pagination changes only in the step that applies a page-fetch
\* success, and that step makes it the page, pageSize, totalCount and
\* totalPages of the response; so after the first response pagination is
\* always that of the response most recently received, also after create
\* and delete successes.
C13_PaginationFromServer ==
    [][/\ state'.pagination # state.pagination => Applied("FetchPaginatedBooksSuccess")
       /\ Applied("FetchPaginatedBooksSuccess")
             => state'.pagination = PaginationOf(lastEvent'.payload)]_vars

\* A delete has emptied the page on display while the totals still are the
\* ones the server reported.
C13_Witness ==
    /\ lastEvent.type = "DeleteBookSuccess"
    /\ lastEvent.n = 1
    /\ state.books = <<>>
    /\ state.pagination.totalCount = 2
    /\ state.pagination.totalPages = 2

\* C14: once the detail view or the form has been torn down, selectedBook
\* is null, and stays null while no such view is mounted: every FetchBookById
\* was issued by a view of this kind, so a selection made while none is
\* mounted comes from a request issued by the view that was left.
C14_SelectionClearedOnLeave ==
    routed = NoView => state.selectedBook = null

RequestTypes == {"FetchPaginatedBooks", "FetchBookById", "CreateBook", "UpdateBook", "DeleteBook"}
SuccessTypes == {type \o "Success" : type \in RequestTypes}
ErrorTypes == {type \o "Error" : type \in RequestTypes}

FailureTypes == ErrorTypes \cup {"FetchStatusesError", "FetchGenresError"}

\* C16: the step that applies the failure of an API operation leaves a
\* non-empty message in state.error and opens a snack bar.
C16_FailureSetsErrorAndNotifies ==
    [][(lastEvent'.type \in FailureTypes /\ (inflight' # inflight \/ lookups' # lookups))
          => /\ state'.error # null
             /\ state'.error # Some("")
             /\ snackBar' # null]_vars

\* The message C17 expects for a transport failure.
ExpectedMessage(error) ==
    CASE error.isErrorEvent -> "Network Error: " \o error.message
      [] ~error.isErrorEvent /\ error.status = 0 ->
            "Connection Error: Unable to reach API at " \o apiUrl
               \o ". Make sure the API server is running on port 7181 and CORS is configured."
      [] ~error.isErrorEvent /\ error.status # 0 ->
            "Server Error (" \o ToString(error.status) \o "): " \o error.message

\* The case of a transport failure: 1 client-side ErrorEvent, 2 status 0,
\* 3 any other status.
FailureCase(error) ==
    IF error.isErrorEvent THEN 1 ELSE IF error.status = 0 THEN 2 ELSE 3

\* C17: the failure of a request leaves in state.error the message of the
\* failure's case: 'Network Error: ' and the event's message for a
\* client-side ErrorEvent, the 'Connection Error: ' text for status 0,
\* 'Server Error (<status>): ' and the response's message otherwise; the
\* message is never empty and failures of different cases never give the
\* same message.
C17_ThreeMessages ==
    [][\A error \in HttpFailures, i \in 1..MaxInflight :
          (FetchBookByIdError(i, error) \/ FetchPaginatedBooksError(i, error))
             => /\ state'.error = Some(ExpectedMessage(error))
                /\ state'.error # Some("")
                /\ \A other \in HttpFailures :
                      FailureCase(other) # FailureCase(error)
                         => state'.error # Some(handleError(other))]_vars

\* The failure of a detail fetch with a non-2xx response that has no
\* message text has been applied.
C17_Witness ==
    /\ lastEvent.type = "FetchBookByIdError"
    /\ state.error = Some("Server Error (404): ")

\* C18: when the timer of a parameter change expires, exactly one page-fetch
\* request is issued, and it carries the parameters the controller holds
\* after the change (search term, status, genre, sort, page, page size);
\* and the list on display is always the store's books.
C18_ChangeFollowedByRequest ==
    /\ [][(timers # <<>> /\ timers' = Tail(timers))
            => /\ issued' # null
               /\ Len(inflight') = Len(inflight) + 1
               /\ issued'[1].Page = currentPage'
               /\ issued'[1].PageSize = pageSize'
               /\ issued'[1].SearchText = (IF searchTerm' = "" THEN null ELSE Some(searchTerm'))
               /\ issued'[1].StatusId = selectedStatusId'
               /\ issued'[1].GenreId = selectedGenreId'
               /\ issued'[1].SortBy = sortConfig'.column
               /\ issued'[1].SortDir = sortConfig'.direction]_vars
    /\ [](paginatedBooks = state.books)

\* C19: at any time at most one request of each kind is outstanding: page
\* fetch, detail fetch, create, update, delete, and each lookup fetch.
C19_OneInFlightPerOperation ==
    /\ \A kind \in RequestTypes : Cardinality(Pending(kind)) <= 1
    /\ \A kind \in DOMAIN lookups : lookups[kind] <= 1

\* C20: the query of every page-fetch request the list view issues has Page
\* and PageSize, has the current sort column and direction as SortBy and
\* SortDir, has SearchText iff the search term is non-empty, and has
\* StatusId / GenreId, with the selected value, iff the selected id is
\* non-null (0 included).
C20_FaithfulSerialisation ==
    [][issued' # null
         => LET query == getBooks(issued'[1]) IN
               /\ query.Page = Some(ToString(currentPage'))
               /\ query.PageSize = Some(ToString(pageSize'))
               /\ query.SortBy = Some(sortConfig'.column)
               /\ query.SortDir = Some(sortConfig'.direction)
               /\ (query.SearchText # null) <=> (searchTerm' # "")
               /\ (searchTerm' # "") => (query.SearchText = Some(searchTerm'))
               /\ (query.StatusId # null) <=> (selectedStatusId' # null)
               /\ (selectedStatusId' # null)
                     => (query.StatusId = Some(ToString(selectedStatusId'[1])))
               /\ (query.GenreId # null) <=> (selectedGenreId' # null)
               /\ (selectedGenreId' # null)
                     => (query.GenreId = Some(ToString(selectedGenreId'[1])))]_vars

\* C21: filteredBooks returns exactly the records that pass the search,
\* genre and status predicates, ordered by the selected field (ascending:
\* natural order, descending: reversed), records equal on the field keeping
\* their original relative order.
StableSorted(list, filter) ==
    LET n == Len(list)
        Before(i, j) ==
            IF filter.sortOrder = "asc"
            THEN FieldGreater(list[j], list[i], filter.sortBy)
            ELSE FieldGreater(list[i], list[j], filter.sortBy)
        Tied(i, j) == ~Before(i, j) /\ ~Before(j, i)
        p == CHOOSE q \in Injections(n) :
                \A i, j \in 1..n :
                   i < j => \/ Before(q[i], q[j])
                            \/ Tied(q[i], q[j]) /\ q[i] < q[j]
    IN [k \in 1..n |-> list[p[k]]]

C21_FilteredAndStablySorted ==
    LET Passes(book) ==
            /\ matchesSearch(book, state.filter)
            /\ matchesGenre(book, state.filter, state.genres)
            /\ matchesStatus(book, state.filter, state.statuses)
    IN \A result \in filteredBooks(state) :
          result = StableSorted(SelectSeq2(state.books, Passes), state.filter)

\* C22: every record a step puts into books or selectedBook is a record of
\* the server response applied in that step (page fetch, detail fetch,
\* create or update); and an id leaves books only when a page response
\* replaces the list or a delete succeeds.
Records(st) == {st.books[k] : k \in DOMAIN st.books}

Served(event) ==
    CASE event.type = "FetchPaginatedBooksSuccess" ->
            {event.payload.items[k] : k \in DOMAIN event.payload.items}
      [] event.type \in {"FetchBookByIdSuccess", "CreateBookSuccess", "UpdateBookSuccess"} ->
            {event.payload}
      [] OTHER -> {}

C23_CurrentPageOnly ==
    state.pagination # DefaultPagination
        => Len(state.books) <= state.pagination.pageSize

\* C24: in every state with loading = false, with or without an error, each
\* fetch and each create, update and delete can be issued; and issuing one
\* puts the store in loading = true with error = null.
C24_LoadingReentrant ==
    /\ [](~state.loading
            => /\ ENABLED FetchPaginatedBooks(DefaultParams)
               /\ \A id \in BookIds : ENABLED FetchBookById(id)
               /\ \A payload \in CreatePayloads : ENABLED CreateBook(payload)
               /\ \A payload \in UpdatePayloads : ENABLED UpdateBook(payload)
               /\ \A id \in DeleteIds : ENABLED DeleteBook(id))
    /\ [][lastEvent'.type \in RequestTypes
            => state'.loading /\ state'.error = null]_vars

C24_Witness ==
    /\ lastEvent.type \in ErrorTypes
    /\ ~state.loading
    /\ state.error # null
    /\ inflight # <<>>

\* C25: loading = false implies that no page fetch, detail fetch, create,
\* update or delete request is awaiting its response.
C25_LoadingWhileOutstanding ==
    ~state.loading => inflight = <<>>

\* C26: the request issued when a goToPage, previousPage or nextPage timer
\* expires carries a Page between 1 and the totalPages known at that moment.
C26_NavigationWithinRange ==
    [][(/\ timers # <<>>
        /\ timers' = Tail(timers)
        /\ Head(timers).callback \in {"goToPage", "previousPage", "nextPage"})
          => /\ issued' # null
             /\ 1 <= issued'[1].Page
             /\ issued'[1].Page <= totalPages]_vars

\* C27: the ids of the records in books are pairwise distinct.
C27_DistinctIds ==
    \A i, j \in DOMAIN state.books : state.books[i].id = state.books[j].id => i = j

\* C28: a valid submission on the edit route dispatches UpdateBook with
\* the route's id, whatever the state of the detail fetch; a valid
\* submission on the add route dispatches one CreateBook; an invalid form
\* dispatches nothing.
C28_SubmitFollowsRoute ==
    [][\A formValue \in FormValues :
          onSubmit(formValue)
             => CASE formValue.title = "" -> inflight' = inflight
                  [] formValue.title # "" /\ routed.view = "edit" ->
                        /\ Len(inflight') = Len(inflight) + 1
                        /\ lastEvent'.type = "UpdateBook"
                        /\ lastEvent'.payload.id = routed.id
                  [] OTHER ->
                        /\ Len(inflight') = Len(inflight) + 1
                        /\ lastEvent'.type = "CreateBook"]_vars

C30_PageNumbers ==
    (totalPages = 0 \/ (1 <= currentPage /\ currentPage <= totalPages))
        => LET pages == pageNumbers(totalPages, currentPage) IN
              /\ totalPages >= 1
                    => /\ pages[1] = 1
                       /\ pages[Len(pages)] = totalPages
                       /\ \E k \in DOMAIN pages : pages[k] = currentPage
              /\ \A i, j \in DOMAIN pages :
                    (i < j /\ pages[i] # -1 /\ pages[j] # -1) => pages[i] < pages[j]
              /\ totalPages <= 5 => pages = [i \in 1..totalPages |-> i]
              /\ \A k \in DOMAIN pages :
                    pages[k] = -1
                       => /\ 1 < k /\ k < Len(pages)
                          /\ pages[k - 1] # -1 /\ pages[k + 1] # -1
                          /\ pages[k + 1] - pages[k - 1] >= 2

C30_Witness ==
    /\ totalPages = 8
    /\ currentPage = 4
    /\ pageNumbers(totalPages, currentPage) = <<1, -1, 3, 4, 5, -1, 8>>
    /\ timers # <<>>

====
